---- MODULE Spec2Model ----
(***************************************************************************)
(* Model of the on-chain registry helper:                                  *)
(*   registrar.py  ERC8004Registrar (wallet load/create, register)         *)
(*   mock_rpc.py   the mock JSON-RPC chain endpoint (handle_rpc)           *)
(*                                                                         *)
(* Text values that the code computes on (hex quantities, hashes,          *)
(* addresses) are sequences of one-character strings, so that hex()        *)
(* formatting and parsing are computed, not assumed.  Optional values and  *)
(* JSON values are tagged records.                                         *)
(***************************************************************************)
EXTENDS Integers, Sequences, FiniteSets, TLC

VARIABLES
    env,        \* os.environ: the wallet variables, read by every load_or_create_wallet
    files,      \* the file system: keystore path -> file content
    registrar,  \* the live ERC8004Registrar instance (w3, account, registry_address)
    last,       \* what the last call did (result, log, I/O, requests)
    issued,     \* history: per (password, path), the first address a key-less load returned
    loaded,     \* history: the first address this instance returned, and whether the
                \* private key and keystore path variables have kept their values since
    rpcLog,     \* mock endpoint: the requests served and their responses (most recent last)
    rpcResp     \* mock endpoint: the response to the most recent request

vars == <<env, files, registrar, last, issued, loaded, rpcLog, rpcResp>>

----------------------------------------------------------------------------
(* Bounds of the model *)

\* number of distinct private keys Account.create() may draw / the environment may hold
MaxKeys == 2
\* number of served requests the history of the mock endpoint keeps
MaxLog == 2

----------------------------------------------------------------------------
(* Text helpers *)

Repeat(c, n) == [i \in 1..n |-> c]

HexDigits == <<"0", "1", "2", "3", "4", "5", "6", "7", "8", "9", "a", "b", "c", "d", "e", "f">>

HexDigit(d) == HexDigits[d + 1]

HexChars == {HexDigits[i] : i \in 1..16}

IsHexChar(c) == c \in HexChars

HexVal(c) == CHOOSE d \in 0..15 : HexDigits[d + 1] = c

Prefix0x == <<"0", "x">>

RECURSIVE HexOfNat(_)
\* the hex digits of n > 0, most significant first (empty for 0)
HexOfNat(n) == IF n = 0 THEN <<>> ELSE Append(HexOfNat(n \div 16), HexDigit(n % 16))

\* Python hex(n) for n >= 0
PyHex(n) == Prefix0x \o (IF n = 0 THEN <<"0">> ELSE HexOfNat(n))

RECURSIVE DecOfNat(_)
DecOfNat(n) == IF n = 0 THEN <<>> ELSE Append(DecOfNat(n \div 10), HexDigit(n % 10))

\* Python str(n) for n >= 0
PyStr(n) == IF n = 0 THEN <<"0">> ELSE DecOfNat(n)

IsHexText(s) ==
    /\ Len(s) >= 2
    /\ SubSeq(s, 1, 2) = Prefix0x
    /\ \A i \in 3..Len(s) : IsHexChar(s[i])

RECURSIVE NatOfHex(_, _)
NatOfHex(digits, acc) ==
    IF digits = <<>> THEN acc ELSE NatOfHex(Tail(digits), acc * 16 + HexVal(Head(digits)))

\* the client's decoding of a hex quantity ("0x5208" -> 21000)
HexToInt(s) == NatOfHex(SubSeq(s, 3, Len(s)), 0)

\* two hex digits per byte, the high one first
HexOfBytes(bs) ==
    [i \in 1..(2 * Len(bs)) |->
        IF i % 2 = 1 THEN HexDigit(bs[(i + 1) \div 2] \div 16) ELSE HexDigit(bs[i \div 2] % 16)]

\* Web3.to_hex on a byte string: "0x" and two lowercase hex digits per byte
ToHex(bs) == Prefix0x \o HexOfBytes(bs)

\* one byte per two hex digits
BytesOfHex(digits) ==
    [i \in 1..(Len(digits) \div 2) |-> HexVal(digits[2 * i - 1]) * 16 + HexVal(digits[2 * i])]

\* HexBytes(text): the bytes a 0x-prefixed hex text denotes
HexBytes(s) == BytesOfHex(SubSeq(s, 3, Len(s)))

----------------------------------------------------------------------------
(* Optional and JSON values *)

None == [t |-> "none"]
Some(v) == [t |-> "some", v |-> v]

JNull == [t |-> "null"]
JStr(s) == [t |-> "str", s |-> s]
JObj(o) == [t |-> "obj", o |-> o]

----------------------------------------------------------------------------
(* mock_rpc.py *)

MOCK_CHAIN_ID == 1337
MOCK_TX_HASH == Prefix0x \o Repeat("a", 64)
MOCK_BLOCK_HASH == Prefix0x \o Repeat("b", 64)

\* the block record eth_getBlockByNumber answers with
MockBlock ==
    [number |-> <<"0", "x", "1">>,
     hash |-> MOCK_BLOCK_HASH,
     parentHash |-> Prefix0x \o Repeat("0", 64),
     miner |-> Prefix0x \o Repeat("0", 40),
     gasLimit |-> <<"0", "x", "1", "c", "9", "c", "3", "8", "0">>,
     gasUsed |-> <<"0", "x", "0">>,
     transactions |-> <<>>,
     uncles |-> <<>>,
     baseFeePerGas |-> <<"0", "x", "3", "b", "9", "a", "c", "a", "0", "0">>]

ReceiptWithStatus(status) ==
    [transactionHash |-> MOCK_TX_HASH,
     transactionIndex |-> <<"0", "x", "1">>,
     blockHash |-> MOCK_BLOCK_HASH,
     blockNumber |-> <<"0", "x", "1">>,
     from |-> Prefix0x \o Repeat("1", 40),
     to |-> Prefix0x \o Repeat("2", 40),
     cumulativeGasUsed |-> <<"0", "x", "5", "2", "0", "8">>,
     gasUsed |-> <<"0", "x", "5", "2", "0", "8">>,
     logs |-> <<>>,
     status |-> status]

\* a receipt that reports failure
MockReceipt_failed == ReceiptWithStatus(<<"0", "x", "0">>)

\* the receipt eth_getTransactionReceipt answers with for MOCK_TX_HASH
MockReceipt == ReceiptWithStatus(<<"0", "x", "1">>)

\* a request's params: a JSON list (a sequence of texts), or a JSON object
ListParams(p) == [t |-> "list", items |-> p]
DictParams == [t |-> "dict"]

\* Python truthiness of params, and params[0] raising on an object without key 0
ParamsTruthy(params) == IF params.t = "list" THEN params.items # <<>> ELSE TRUE
ParamsFirstRaises(params) == params.t = "dict"

\* a stateful endpoint: the receipt exists only once a submission was served
ReceiptAfterSubmit(params) ==
    [raised |-> ParamsTruthy(params) /\ ParamsFirstRaises(params),
     result |-> IF /\ ParamsTruthy(params)
                   /\ ~ParamsFirstRaises(params)
                   /\ params.items[1] = MOCK_TX_HASH
                   /\ \E i \in 1..Len(rpcLog) :
                          /\ rpcLog[i].body.t = "dict"
                          /\ rpcLog[i].body.method = "eth_sendRawTransaction"
                THEN JObj(MockReceipt) ELSE JNull]

\* the receipt branch of handle_rpc: the result, or the exception params[0] raises
Receipt(params) ==
    [raised |-> ParamsTruthy(params) /\ ParamsFirstRaises(params),
     result |-> IF /\ ParamsTruthy(params)
                   /\ ~ParamsFirstRaises(params)
                   /\ params.items[1] = MOCK_TX_HASH
                THEN JObj(MockReceipt) ELSE JNull]

\* the dispatch on the method name; [raised, result]
Dispatch(method, params) ==
    CASE method = "eth_chainId" -> [raised |-> FALSE, result |-> JStr(PyHex(MOCK_CHAIN_ID))]
      [] method = "net_version" -> [raised |-> FALSE, result |-> JStr(PyStr(MOCK_CHAIN_ID))]
      [] method = "eth_getTransactionCount" -> [raised |-> FALSE, result |-> JStr(<<"0", "x", "0">>)]
      [] method = "eth_gasPrice" ->
            [raised |-> FALSE, result |-> JStr(<<"0", "x", "3", "b", "9", "a", "c", "a", "0", "0">>)]
      [] method = "eth_estimateGas" -> [raised |-> FALSE, result |-> JStr(<<"0", "x", "5", "2", "0", "8">>)]
      [] method = "eth_maxPriorityFeePerGas" ->
            [raised |-> FALSE, result |-> JStr(<<"0", "x", "3", "b", "9", "a", "c", "a", "0", "0">>)]
      [] method = "eth_getBlockByNumber" -> [raised |-> FALSE, result |-> JObj(MockBlock)]
      [] method = "eth_sendRawTransaction" -> [raised |-> FALSE, result |-> JStr(MOCK_TX_HASH)]
      [] method = "eth_getTransactionReceipt" -> Receipt(params)
      [] OTHER -> [raised |-> FALSE, result |-> JStr(<<"0", "x", "0">>)]

\* a request body: a JSON object with method, params and id, or a body that is no object
Envelope(method, params, id) == [t |-> "dict", method |-> method, params |-> params, id |-> id]
NotAnObject == [t |-> "list"]

\* handle_rpc: the HTTP status and JSON body answered to a request body
handle_rpc(data) ==
    IF data.t # "dict"
    THEN [status |-> 500, jsonrpc |-> "2.0", id |-> None, kind |-> "error", code |-> 0 - 32000,
          result |-> JNull]
    ELSE LET d == Dispatch(data.method, data.params) IN
         IF d.raised
         THEN [status |-> 500, jsonrpc |-> "2.0", id |-> None, kind |-> "error", code |-> 0 - 32000,
               result |-> JNull]
         ELSE [status |-> 200, jsonrpc |-> "2.0", id |-> Some(data.id), kind |-> "result", code |-> 0,
               result |-> d.result]

----------------------------------------------------------------------------
(* registrar.py: the environment, the keystore file, the wallet *)

DEFAULT_KEYSTORE_PATH == "agent_keystore.json"

\* os.getenv(name, default) on an environment value that may be unset
GetEnv(value, default) == IF value = None THEN default ELSE value.v

\* AGENT_REGISTRY_ADDRESS is kept as "0x" and a run of one digit; Text gives its characters
HexRun(digit, n) == [digit |-> digit, n |-> n]
Text(run) == Prefix0x \o Repeat(run.digit, run.n)

\* Python truthiness of an optional value: unset and empty are both false
TruthyStr(value) == value # None /\ value.v # ""
TruthyRun(value) == value # None /\ Text(value.v) # <<>>
TruthyKey(value) == value # None

Keys == 1..MaxKeys

\* the text of private key k, as AGENT_PRIVATE_KEY holds it, and a text that is no key
KeyText(k) == [t |-> "hex", of |-> k]
NotAKey == [t |-> "garbage", of |-> 0]

\* Account.from_key on a text: the key it denotes, or a raise
FromKeyText(text) ==
    IF text.t = "hex" /\ text.of \in Keys
    THEN [raised |-> FALSE, key |-> text.of]
    ELSE [raised |-> TRUE, key |-> 0]

\* account.address: the address a key determines (distinct keys, distinct addresses)
Address(k) == [address_of |-> k]

\* Account.encrypt(key, password): the keystore dict
Encrypt(key, password) == [version |-> 3, key |-> key, password |-> password]

\* a file's content: the JSON text of a keystore dict, or what an interrupted write left
JsonDump(blob) == [t |-> "json", blob |-> blob]
Truncated == [t |-> "truncated"]

\* Account.decrypt(text, password): the key, or a raise (not JSON, or the wrong password)
Decrypt(content, password) ==
    IF content.t = "json" /\ content.blob.password = password
    THEN [raised |-> FALSE, key |-> content.blob.key]
    ELSE [raised |-> TRUE, key |-> 0]

Passwords == {"test_password", "testpass"}
PasswordEnv == {None} \cup {Some(p) : p \in Passwords}
PrivateKeyEnv == {None, Some(NotAKey), Some(KeyText(1))}
KeystorePathEnv == {None, Some("test_keystore.json")}
Paths == {GetEnv(p, DEFAULT_KEYSTORE_PATH) : p \in KeystorePathEnv}

\* what can go wrong while the new keystore is encrypted and written
Faults == {"none", "encrypt", "open", "dump"}

\* the outcome of a load_or_create_wallet call
Loaded(account, fs, result, log, io) ==
    [account |-> account, fs |-> fs, result |-> result, log |-> log, io |-> io]

\* Priority 1, lines 57-63: the private key from the environment
FromPrivateKey(account, fs, private_key) ==
    LET k == FromKeyText(private_key.v) IN
    IF k.raised THEN Loaded(account, fs, None, "bad_private_key", <<"from_key">>)
    ELSE Loaded(Some(k.key), fs, Some(Address(k.key)), "loaded_private_key", <<"from_key">>)

\* a keystore branch that drops the identity it holds when the file does not decrypt
FromKeystore_resets(account, fs, keystore_path, password) ==
    LET d == Decrypt(fs[keystore_path].v, password) IN
    IF d.raised THEN Loaded(None, fs, None, "bad_keystore", <<"exists", "read", "decrypt">>)
    ELSE Loaded(Some(d.key), fs, Some(Address(d.key)), "loaded_keystore", <<"exists", "read", "decrypt">>)

\* Priority 2, lines 70-80: the keystore file, which exists
FromKeystore(account, fs, keystore_path, password) ==
    LET d == Decrypt(fs[keystore_path].v, password) IN
    IF d.raised THEN Loaded(account, fs, None, "bad_keystore", <<"exists", "read", "decrypt">>)
    ELSE Loaded(Some(d.key), fs, Some(Address(d.key)), "loaded_keystore", <<"exists", "read", "decrypt">>)

\* Priority 3, lines 83-96: a new wallet; self._account is assigned (line 85) before the
\* keystore is encrypted and written, so it stays assigned when one of those raises.
\* fault and newKey are the environment's part: what fails, and the key Account.create() draws.
CreateWallet(account, fs, keystore_path, password, fault, newKey) ==
    CASE fault = "encrypt" ->
           Loaded(Some(newKey), fs, None, "create_failed", <<"exists", "create", "encrypt">>)
      [] fault = "open" ->
           Loaded(Some(newKey), fs, None, "create_failed", <<"exists", "create", "encrypt", "open_w">>)
      [] fault = "dump" ->
           Loaded(Some(newKey), [fs EXCEPT ![keystore_path] = Some(Truncated)], None,
                  "create_failed", <<"exists", "create", "encrypt", "open_w", "dump">>)
      [] OTHER ->
           Loaded(Some(newKey), [fs EXCEPT ![keystore_path] = Some(JsonDump(Encrypt(newKey, password)))],
                  Some(Address(newKey)), "created", <<"exists", "create", "encrypt", "open_w", "dump">>)

\* a load_or_create_wallet whose keystore branch is skipped: a new wallet on every call
load_or_create_wallet_always_creates(account, fs, password, private_key, keystore_env, fault, newKey) ==
    LET keystore_path == GetEnv(keystore_env, DEFAULT_KEYSTORE_PATH) IN
    IF ~TruthyStr(password) THEN Loaded(account, fs, None, "password_not_set", <<>>)
    ELSE IF TruthyKey(private_key) THEN FromPrivateKey(account, fs, private_key)
    ELSE CreateWallet(account, fs, keystore_path, password.v, fault, newKey)

\* a load_or_create_wallet that falls through to the keystore when the private key does not parse
load_or_create_wallet_falls_through(account, fs, password, private_key, keystore_env, fault, newKey) ==
    LET keystore_path == GetEnv(keystore_env, DEFAULT_KEYSTORE_PATH) IN
    IF ~TruthyStr(password) THEN Loaded(account, fs, None, "password_not_set", <<>>)
    ELSE IF TruthyKey(private_key) /\ ~FromKeyText(private_key.v).raised
    THEN FromPrivateKey(account, fs, private_key)
    ELSE IF fs[keystore_path] # None THEN FromKeystore(account, fs, keystore_path, password.v)
    ELSE CreateWallet(account, fs, keystore_path, password.v, fault, newKey)

\* ERC8004Registrar.load_or_create_wallet: the instance's account and the file system after
\* the call, the value returned, the line logged last and the I/O performed
load_or_create_wallet(account, fs, password, private_key, keystore_env, fault, newKey) ==
    LET keystore_path == GetEnv(keystore_env, DEFAULT_KEYSTORE_PATH) IN
    IF ~TruthyStr(password) THEN Loaded(account, fs, None, "password_not_set", <<>>)
    ELSE IF TruthyKey(private_key) THEN FromPrivateKey(account, fs, private_key)
    ELSE IF fs[keystore_path] # None THEN FromKeystore(account, fs, keystore_path, password.v)
    ELSE CreateWallet(account, fs, keystore_path, password.v, fault, newKey)

----------------------------------------------------------------------------
(* registrar.py: construction and register *)

\* the URL of the mock endpoint, and of some other node
MockUrl == "http://127.0.0.1:8545"
NodeUrl == "http://localhost:8545"

RpcUrlEnv == {None, Some(MockUrl), Some(NodeUrl)}
RegistryEnv == {None, Some(HexRun("1", 40)), Some(HexRun("1", 2))}
Urls == {"http://test.agent", "http://test.url"}

\* the environment the tests set up (test_registrar.py setUp, verify_mock_registration.py)
TestEnv ==
    [password |-> Some("test_password"),
     private_key |-> None,
     keystore_path |-> Some("test_keystore.json")]
TestRpcUrl == Some(MockUrl)
TestRegistry == Some(HexRun("1", 40))

\* ERC8004Registrar.__init__: the fields of a new instance
NewInstance(rpc_url, registry_address) ==
    [w3 |-> IF TruthyStr(rpc_url) THEN Some(rpc_url.v) ELSE None,
     account |-> None,
     contract |-> None,
     registry_address |-> registry_address]

\* Web3.to_checksum_address: raises unless the text is a 20-byte hex address.  The
\* checksum form of an address with no letters among its digits is the address itself.
ToChecksumAddress(text) ==
    IF IsHexText(text) /\ Len(text) = 42
    THEN [raised |-> FALSE, address |-> text]
    ELSE [raised |-> TRUE, address |-> <<>>]

\* the transaction hash register(..., mock=True) returns
MockModeTxHash == Prefix0x \o Repeat("0", 64)

\* What the chain behind self._w3 answers during one register call:
\*   connected  is_connected()
\*   fail       the step that raises ("none": no step does; "revert": the submission
\*              raises ContractLogicError)
\*   gasOk, gas estimate_gas raises or returns gas
\*   nonce      get_transaction_count
\*   hash       the bytes send_raw_transaction returns
\*   status     the status of the receipt wait_for_transaction_receipt returns
Net(connected, fail, gasOk, nonce, gas, hash, status) ==
    [connected |-> connected, fail |-> fail, gasOk |-> gasOk, nonce |-> nonce, gas |-> gas,
     hash |-> hash, status |-> status]

NoNet == Net(FALSE, "none", FALSE, 0, 0, <<>>, 0)

\* b"tx_hash", the hash the unit test's node returns
TxHashes == {<<116, 120, 95, 104, 97, 115, 104>>}
Statuses == {0, 1, 2}

\* the answers of a node, cut after the step that ends the call
NodeNets ==
    {NoNet}
    \cup {Net(TRUE, f, FALSE, 0, 0, <<>>, 0) : f \in {"contract", "nonce"}}
    \cup {Net(TRUE, "build", FALSE, 1, 0, <<>>, 0)}
    \cup {Net(TRUE, f, g, 1, IF g THEN 21000 ELSE 0, <<>>, 0) :
              f \in {"sign", "send", "revert"}, g \in BOOLEAN}
    \cup {Net(TRUE, "receipt", g, 1, IF g THEN 21000 ELSE 0, h, 0) : g \in BOOLEAN, h \in TxHashes}
    \cup {Net(TRUE, "none", g, 1, IF g THEN 21000 ELSE 0, h, st) :
              g \in BOOLEAN, h \in TxHashes, st \in Statuses}

\* one request of the chain client to the mock endpoint
Rpc(method, items) == handle_rpc(Envelope(method, ListParams(items), 1))

\* The answers of the mock endpoint while it is up (NoNet: while it is down): each is what handle_rpc returns to the
\* client's request, decoded as the client decodes it.  wait_for_transaction_receipt polls
\* eth_getTransactionReceipt with the hex of the hash until the result is not null; the
\* endpoint answers every poll alike, so a null first answer ends in the wait's timeout.
MockNet ==
    LET count == Rpc("eth_getTransactionCount", <<>>)
        est == Rpc("eth_estimateGas", <<>>)
        sent == Rpc("eth_sendRawTransaction", <<<<"0", "x", "f", "8">>>>)
        hash == HexBytes(sent.result.s)
        rcpt == Rpc("eth_getTransactionReceipt", <<ToHex(hash)>>)
    IN  Net(Rpc("web3_clientVersion", <<>>).status = 200,
            IF rcpt.status # 200 \/ rcpt.result = JNull THEN "receipt" ELSE "none",
            est.status = 200,
            HexToInt(count.result.s),
            HexToInt(est.result.s),
            hash,
            IF rcpt.status # 200 \/ rcpt.result = JNull THEN 0
            ELSE HexToInt(rcpt.result.o.status))

\* the chain answers a register call on this instance may meet (with mock=True: the
\* chain down, or up and answering every step)
NetsFor(self, mock) ==
    IF self.w3 = None THEN {NoNet}
    ELSE LET all == IF self.w3.v = MockUrl THEN {NoNet, MockNet} ELSE NodeNets IN
         IF mock THEN {n \in all : ~n.connected \/ (n.fail = "none" /\ n.gasOk /\ n.status = 1)}
         ELSE all

\* the outcome of a register call: the value returned, the line logged last, the steps
\* performed in order, the step that raised ("none": no step did), the transaction built,
\* and whether an exception left the call
Registered(result, log, steps, raisedAt, tx) ==
    [result |-> result, log |-> log, steps |-> steps, raisedAt |-> raisedAt, tx |-> tx,
     escaped |-> FALSE]

\* a step of the try block raised exc at step raisedAt
Raised(exc, steps, raisedAt, tx) ==
    [exc |-> exc, result |-> None, log |-> "", steps |-> steps, raisedAt |-> raisedAt, tx |-> tx]

\* the try block ran to one of its return statements
Returned(result, log, steps, tx) ==
    [exc |-> "none", result |-> result, log |-> log, steps |-> steps, raisedAt |-> "none", tx |-> tx]

\* int(gas_estimate * 1.2)
Buffer(gas_estimate) == (gas_estimate * 12) \div 10

\* preconditions checked wallet first
Preconditions_wallet_first(self, net) ==
    IF self.account = None THEN [log |-> "no_wallet", steps |-> <<>>]
    ELSE IF self.w3 = None THEN [log |-> "not_connected", steps |-> <<>>]
    ELSE IF ~net.connected THEN [log |-> "not_connected", steps |-> <<"is_connected">>]
    ELSE IF ~TruthyRun(self.registry_address) THEN [log |-> "no_registry", steps |-> <<"is_connected">>]
    ELSE [log |-> "ok", steps |-> <<"is_connected">>]

\* register, lines 126-136: the three preconditions in order; the error logged ("ok": none)
\* and the requests made while checking
Preconditions(self, net) ==
    IF self.w3 = None THEN [log |-> "not_connected", steps |-> <<>>]
    ELSE IF ~net.connected THEN [log |-> "not_connected", steps |-> <<"is_connected">>]
    ELSE IF self.account = None THEN [log |-> "no_wallet", steps |-> <<"is_connected">>]
    ELSE IF ~TruthyRun(self.registry_address) THEN [log |-> "no_registry", steps |-> <<"is_connected">>]
    ELSE [log |-> "ok", steps |-> <<"is_connected">>]

\* register, lines 157-161: tx['gas'] after the estimate, left unset when the estimate raises
GasStep(net) ==
    IF net.gasOk THEN Some(Buffer(net.gas)) ELSE None

\* the hash returned whatever the receipt's status
ReceiptResult_ignores_status(hash, status) ==
    [result |-> Some(ToHex(hash)), log |-> "registered"]

\* register, lines 173-178: the value returned for a receipt
ReceiptResult(hash, status) ==
    IF status = 1 THEN [result |-> Some(ToHex(hash)), log |-> "registered"]
    ELSE [result |-> None, log |-> "tx_failed"]

\* register, lines 139-178: the body of the try block, entered once the preconditions hold
TryBody(self, agent_url, net, pre) ==
    LET checksum == ToChecksumAddress(Text(self.registry_address.v))
        s1 == pre \o <<"to_checksum_address">>
        s2 == s1 \o <<"contract">>
        s3 == s2 \o <<"get_transaction_count">>
        s4 == s3 \o <<"build_transaction">>
        s5 == s4 \o <<"estimate_gas">>
        s6 == s5 \o <<"sign_transaction">>
        s7 == s6 \o <<"send_raw_transaction">>
        s8 == s7 \o <<"wait_for_transaction_receipt">>
        gas == GasStep(net)
        tx == Some([from |-> Address(self.account.v), nonce |-> net.nonce, gas |-> gas])
    IN  IF checksum.raised THEN Raised("Exception", s1, "to_checksum_address", None)
        ELSE IF net.fail = "contract" THEN Raised("Exception", s2, "contract", None)
        ELSE IF net.fail = "nonce" THEN Raised("Exception", s3, "get_transaction_count", None)
        ELSE IF net.fail = "build" THEN Raised("Exception", s4, "build_transaction", None)
        ELSE IF net.fail = "sign" THEN Raised("Exception", s6, "sign_transaction", tx)
        ELSE IF net.fail = "revert" THEN Raised("ContractLogicError", s7, "send_raw_transaction", tx)
        ELSE IF net.fail = "send" THEN Raised("Exception", s7, "send_raw_transaction", tx)
        ELSE IF net.fail = "receipt" THEN Raised("Exception", s8, "wait_for_transaction_receipt", tx)
        ELSE LET r == ReceiptResult(net.hash, net.status) IN Returned(r.result, r.log, s8, tx)

\* except clauses that catch ContractLogicError alone
Except_contract_logic_only(body) ==
    [result |-> body.result,
     log |-> IF body.exc = "ContractLogicError" THEN "contract_logic_error" ELSE body.log,
     steps |-> body.steps, raisedAt |-> body.raisedAt, tx |-> body.tx,
     escaped |-> body.exc = "Exception"]

\* register, lines 180-185: the except clauses; every exception becomes a logged None
Except(body) ==
    [result |-> IF body.exc = "none" THEN body.result ELSE None,
     log |-> CASE body.exc = "ContractLogicError" -> "contract_logic_error"
               [] body.exc = "Exception" -> "unexpected_error"
               [] OTHER -> body.log,
     steps |-> body.steps, raisedAt |-> body.raisedAt, tx |-> body.tx,
     escaped |-> FALSE]

\* register, lines 138-185
TryBlock(self, agent_url, net, pre) == Except(TryBody(self, agent_url, net, pre))

\* a register that checks its preconditions before it looks at mock
register_mock_after_preconditions(self, agent_url, mock, net) ==
    LET pre == Preconditions(self, net) IN
    IF pre.log # "ok" THEN Registered(None, pre.log, pre.steps, "none", None)
    ELSE IF mock THEN Registered(Some(MockModeTxHash), "mock", pre.steps, "none", None)
    ELSE TryBlock(self, agent_url, net, pre.steps)

\* ERC8004Registrar.register
register(self, agent_url, mock, net) ==
    IF mock THEN Registered(Some(MockModeTxHash), "mock", <<>>, "none", None)
    ELSE LET pre == Preconditions(self, net) IN
         IF pre.log # "ok" THEN Registered(None, pre.log, pre.steps, "none", None)
         ELSE TryBlock(self, agent_url, net, pre.steps)

----------------------------------------------------------------------------
(* The calls made on the registrar *)

NoIssue == [pw \in Passwords, p \in Paths |-> None]

\* a process starts in the tests' environment: no keystore file yet, one registrar constructed
Init ==
    /\ env = TestEnv
    /\ files = [p \in Paths |-> None]
    /\ registrar = NewInstance(TestRpcUrl, TestRegistry)
    /\ last = [op |-> "init"]
    /\ issued = NoIssue
    /\ loaded = None
    /\ rpcLog = <<>>
    /\ rpcResp = None

\* os.environ[...] = ... on one of the wallet variables, between two calls
SetWalletEnv ==
    /\ \/ \E v \in PasswordEnv \ {env.password} : env' = [env EXCEPT !.password = v]
       \/ \E v \in PrivateKeyEnv \ {env.private_key} : env' = [env EXCEPT !.private_key = v]
       \/ \E v \in KeystorePathEnv \ {env.keystore_path} : env' = [env EXCEPT !.keystore_path = v]
    /\ last' = [op |-> "setenv"]
    /\ loaded' = IF loaded = None THEN None
                 ELSE Some([loaded.v EXCEPT !.same = @ /\ env'.private_key = env.private_key
                                                     /\ env'.keystore_path = env.keystore_path])
    /\ UNCHANGED <<files, registrar, issued, rpcLog, rpcResp>>

\* ERC8004Registrar() with AGENT_RPC_URL among rpc_urls and AGENT_REGISTRY_ADDRESS among
\* registries: another instance replaces the live one; the files stay
NewRegistrar(rpc_urls, registries) ==
    /\ \E rpc_url \in rpc_urls, registry_address \in registries :
          registrar' = NewInstance(rpc_url, registry_address)
    /\ last' = [op |-> "init"]
    /\ loaded' = None
    /\ UNCHANGED <<env, files, issued, rpcLog, rpcResp>>

\* registrar.load_or_create_wallet()
LoadCall ==
    \E fault \in Faults, newKey \in Keys :
        LET r == load_or_create_wallet(registrar.account, files, env.password, env.private_key,
                                       env.keystore_path, fault, newKey)
            path == GetEnv(env.keystore_path, DEFAULT_KEYSTORE_PATH)
            keyless == TruthyStr(env.password) /\ ~TruthyKey(env.private_key)
        IN  /\ registrar' = [registrar EXCEPT !.account = r.account]
            /\ files' = r.fs
            /\ last' = [op |-> "load", result |-> r.result, log |-> r.log, io |-> r.io]
            /\ issued' = IF keyless /\ r.result # None /\ issued[env.password.v, path] = None
                         THEN [issued EXCEPT ![env.password.v, path] = r.result]
                         ELSE issued
            /\ loaded' = IF loaded = None /\ r.result # None
                         THEN Some([address |-> r.result.v, how |-> r.log, same |-> TRUE])
                         ELSE loaded
            /\ UNCHANGED <<env, rpcLog, rpcResp>>

\* registrar.register(agent_url, mock), agent_url among urls, against what the chain answers
RegisterCall(urls) ==
    \E agent_url \in urls, mock \in BOOLEAN :
        \E net \in NetsFor(registrar, mock) :
            LET r == register(registrar, agent_url, mock, net) IN
            /\ last' = [op |-> "register", agent_url |-> agent_url, mock |-> mock, net |-> net,
                        result |-> r.result, log |-> r.log, steps |-> r.steps,
                        raisedAt |-> r.raisedAt, tx |-> r.tx, escaped |-> r.escaped]
            /\ UNCHANGED <<env, files, registrar, issued, loaded, rpcLog, rpcResp>>

\* the wallet under every wallet environment, the chain variables as the tests set them
NextWallet ==
    \/ SetWalletEnv
    \/ NewRegistrar({TestRpcUrl}, {TestRegistry})
    \/ LoadCall
    \/ RegisterCall({"http://test.agent"})

SpecWallet == Init /\ [][NextWallet]_vars

\* register under every chain environment, the wallet variables as the tests set them
NextRegister == NewRegistrar(RpcUrlEnv, RegistryEnv) \/ LoadCall \/ RegisterCall(Urls)

SpecRegister == Init /\ [][NextRegister]_vars

----------------------------------------------------------------------------
(* The requests served by the mock endpoint *)

Methods ==
    {"eth_chainId", "net_version", "eth_getTransactionCount", "eth_gasPrice", "eth_estimateGas",
     "eth_maxPriorityFeePerGas", "eth_getBlockByNumber", "eth_sendRawTransaction",
     "eth_getTransactionReceipt", "eth_call"}

\* a hash that is not MOCK_TX_HASH
OtherHash == Prefix0x \o Repeat("c", 64)

RpcBodies ==
    {Envelope(m, ListParams(<<>>), 1) : m \in Methods}
    \cup {Envelope(m, p, 1) :
              m \in {"eth_sendRawTransaction", "eth_getTransactionReceipt"},
              p \in {ListParams(<<MOCK_TX_HASH>>), ListParams(<<OtherHash>>), DictParams}}
    \cup {NotAnObject}

\* POST /: one request is answered; the history keeps the last MaxLog exchanges
RpcRequest ==
    \E body \in RpcBodies :
        LET resp == handle_rpc(body)
            exchange == [body |-> body, resp |-> resp]
        IN  /\ rpcResp' = Some(resp)
            /\ rpcLog' = IF Len(rpcLog) < MaxLog THEN Append(rpcLog, exchange)
                         ELSE Append(Tail(rpcLog), exchange)
        /\ UNCHANGED <<env, files, registrar, last, issued, loaded>>

NextRpc == RpcRequest

SpecRpc == Init /\ [][NextRpc]_vars

----------------------------------------------------------------------------
(* Properties *)

\* the steps of a register call that runs to its receipt, in order
FullSteps ==
    <<"is_connected", "to_checksum_address", "contract", "get_transaction_count",
      "build_transaction", "estimate_gas", "sign_transaction", "send_raw_transaction",
      "wait_for_transaction_receipt">>

\* the steps up to and including step
StepsThrough(step) ==
    SubSeq(FullSteps, 1, CHOOSE i \in 1..Len(FullSteps) : FullSteps[i] = step)

\* the last call was register(mock=False) on an instance that passes the three preconditions
PreconditionsHold ==
    /\ last.op = "register"
    /\ ~last.mock
    /\ registrar.w3 # None
    /\ last.net.connected
    /\ registrar.account # None
    /\ registrar.registry_address # None

\* the step of the last register call at which the chain or the address makes it raise
FailingStep ==
    IF Len(Text(registrar.registry_address.v)) # 42 THEN "to_checksum_address"
    ELSE CASE last.net.fail = "contract" -> "contract"
           [] last.net.fail = "nonce" -> "get_transaction_count"
           [] last.net.fail = "build" -> "build_transaction"
           [] last.net.fail = "sign" -> "sign_transaction"
           [] last.net.fail \in {"send", "revert"} -> "send_raw_transaction"
           [] last.net.fail = "receipt" -> "wait_for_transaction_receipt"
           [] OTHER -> "none"

\* the keystore path the wallet variables name
WalletPath == GetEnv(env.keystore_path, DEFAULT_KEYSTORE_PATH)

\* C1: register(agent_url, mock=True) returns "0x" followed by 64 zeros for every agent_url
\* and in every state of the instance, and makes no request to the chain during the call.
C1_MockModeReturnsPlaceholder ==
    (last.op = "register" /\ last.mock) =>
        /\ last.result = Some(<<"0", "x">> \o [i \in 1..64 |-> "0"])
        /\ last.steps = <<>>
        /\ ~last.escaped

C1_Witness ==
    /\ last.op = "register"
    /\ last.mock
    /\ last.agent_url = "http://test.url"
    /\ registrar.w3 # None
    /\ last.net.connected
    /\ registrar.account = None
    /\ registrar.registry_address = None
    /\ last.result = Some(<<"0", "x">> \o [i \in 1..64 |-> "0"])

C3_PreconditionsInOrder ==
    (last.op = "register" /\ ~last.mock) =>
        LET noClient == registrar.w3 = None \/ ~last.net.connected
            noWallet == registrar.account = None
            noRegistry == registrar.registry_address = None
        IN  (noClient \/ noWallet \/ noRegistry) =>
                /\ last.result = None
                /\ ~last.escaped
                /\ last.log = IF noClient THEN "not_connected"
                              ELSE IF noWallet THEN "no_wallet" ELSE "no_registry"
                /\ \A i \in 1..Len(last.steps) : last.steps[i] = "is_connected"

C3_Witness ==
    /\ last.op = "register"
    /\ ~last.mock
    /\ registrar.w3 # None
    /\ last.net.connected
    /\ registrar.account = None
    /\ registrar.registry_address = None
    /\ last.result = None
    /\ last.log = "no_wallet"

\* C4: load_or_create_wallet resolves by first match without falling through: no password,
\* None and nothing touched; else a private key configured, that key or None on a parse
\* failure, the keystore file neither read nor written; else a keystore file present, its
\* key or None when it does not decrypt, no wallet created and the file not written; only
\* otherwise a new keypair is generated and the keystore file written.
C4_FirstMatchNoFallThrough ==
    [][last'.op = "load" =>
        LET create == \E i \in 1..Len(last'.io) : last'.io[i] = "create" IN
        IF ~TruthyStr(env.password)
        THEN last'.result = None /\ last'.io = <<>> /\ files' = files
        ELSE IF env.private_key # None
        THEN /\ last'.io = <<"from_key">>
             /\ files' = files
             /\ last'.result = IF env.private_key.v.t = "hex"
                               THEN Some(Address(env.private_key.v.of)) ELSE None
        ELSE IF files[WalletPath] # None
        THEN /\ ~create
             /\ files' = files
             /\ last'.result =
                    IF files[WalletPath].v.t = "json"
                       /\ files[WalletPath].v.blob.password = env.password.v
                    THEN Some(Address(files[WalletPath].v.blob.key)) ELSE None
        ELSE /\ create
             /\ last'.result # None =>
                    \E k \in Keys :
                        /\ last'.result = Some(Address(k))
                        /\ files' = [files EXCEPT
                                        ![WalletPath] = Some(JsonDump(Encrypt(k, env.password.v)))]
    ]_vars

C4_Witness ==
    /\ last.op = "load"
    /\ TruthyStr(env.password)
    /\ env.private_key = Some(NotAKey)
    /\ files[WalletPath] # None
    /\ files[WalletPath].v.t = "json"
    /\ files[WalletPath].v.blob.password = env.password.v
    /\ last.result = None

\* C5: with no private key configured, once a load under a password and keystore path has
\* returned an address, every later load under the same password and path, by this or
\* another instance, decrypts the file and returns that address; the load that finds no
\* file creates the wallet and writes the file the later loads read.
C5_RepeatedLoadsSameAddress ==
    [][(last'.op = "load" /\ TruthyStr(env.password) /\ env.private_key = None) =>
        LET first == issued[env.password.v, WalletPath] IN
        /\ first # None =>
               /\ last'.result = first
               /\ last'.io = <<"exists", "read", "decrypt">>
               /\ files' = files
        /\ (files[WalletPath] = None /\ last'.result # None) =>
               /\ first = None
               /\ Decrypt(files'[WalletPath].v, env.password.v).raised = FALSE
               /\ last'.result = Some(Address(Decrypt(files'[WalletPath].v, env.password.v).key))
    ]_vars

C5_Witness ==
    /\ last.op = "load"
    /\ env.private_key = None
    /\ loaded # None
    /\ loaded.v.how = "loaded_keystore"
    /\ last.log = "loaded_keystore"
    /\ last.result = issued[env.password.v, WalletPath]
    /\ registrar.account # None
    /\ Some(Address(registrar.account.v)) = last.result

\* C6: the mock endpoint answers eth_sendRawTransaction with the fixed hash whatever the
\* payload, eth_getTransactionReceipt with a receipt of status "0x1" when the first
\* parameter is that hash and with null when it is another hash or there is no parameter;
\* two requests that are the same get the same answer whatever came between them.
C6_MockEndpointStateless ==
    /\ \A i \in 1..Len(rpcLog) :
          LET req == rpcLog[i].body
              resp == rpcLog[i].resp
          IN  (req.t = "dict" /\ req.params.t = "list") =>
                  /\ req.method = "eth_sendRawTransaction" =>
                         /\ resp.status = 200
                         /\ resp.result = JStr(<<"0", "x">> \o [k \in 1..64 |-> "a"])
                  /\ req.method = "eth_getTransactionReceipt" =>
                         /\ resp.status = 200
                         /\ IF req.params.items # <<>>
                               /\ req.params.items[1] = <<"0", "x">> \o [k \in 1..64 |-> "a"]
                            THEN /\ resp.result.t = "obj"
                                 /\ resp.result.o.status = <<"0", "x", "1">>
                                 /\ resp.result.o.transactionHash = req.params.items[1]
                            ELSE resp.result = JNull
    /\ \A i, j \in 1..Len(rpcLog) :
          rpcLog[i].body = rpcLog[j].body => rpcLog[i].resp = rpcLog[j].resp

C6_Witness ==
    /\ Len(rpcLog) = 2
    /\ rpcLog[1].body.t = "dict"
    /\ rpcLog[1].body.method = "eth_getTransactionReceipt"
    /\ rpcLog[1].body.params = ListParams(<<MOCK_TX_HASH>>)
    /\ rpcLog[1].resp.result.t = "obj"
    /\ rpcLog[2].body = rpcLog[1].body
    /\ rpcResp.v.result.o.status = <<"0", "x", "1">>

\* C7: with the chain client pointed at the running mock endpoint, the registry address set
\* and a wallet loaded, register(url, mock=False) runs connectivity check, nonce fetch, gas
\* estimate, submission and receipt wait on the endpoint's answers and returns "0x"
\* followed by 64 "a", for any url.
C7_EndToEndAgainstMock ==
    (/\ last.op = "register"
     /\ ~last.mock
     /\ registrar.w3 = Some(MockUrl)
     /\ last.net.connected
     /\ registrar.account # None
     /\ registrar.registry_address = Some(HexRun("1", 40))) =>
        /\ last.result = Some(<<"0", "x">> \o [i \in 1..64 |-> "a"])
        /\ last.steps = FullSteps
        /\ last.tx = Some([from |-> Address(registrar.account.v), nonce |-> 0, gas |-> Some(25200)])
        /\ ~last.escaped

C7_Witness ==
    /\ last.op = "register"
    /\ ~last.mock
    /\ last.agent_url = "http://test.url"
    /\ registrar.w3 = Some(MockUrl)
    /\ last.net.connected
    /\ loaded # None
    /\ loaded.v.how = "created"
    /\ registrar.registry_address = Some(HexRun("1", 40))
    /\ last.result = Some(MOCK_TX_HASH)

\* C8: no exception leaves register(mock=False); once the preconditions hold, a failure of
\* any step but the gas estimate makes the call return None with no step after the failing
\* one performed, and a failure of the gas estimate alone lets the call run on to the receipt.
C8_NoExceptionEscapes ==
    (last.op = "register" /\ ~last.mock) =>
        /\ ~last.escaped
        /\ (PreconditionsHold /\ FailingStep # "none") =>
               /\ last.result = None
               /\ last.steps = StepsThrough(FailingStep)
        /\ (PreconditionsHold /\ FailingStep = "none" /\ ~last.net.gasOk) =>
               /\ last.steps = FullSteps
               /\ last.tx.v.gas = None
               /\ last.net.status = 1 => last.result # None

C8_Witness ==
    /\ PreconditionsHold
    /\ ~last.net.gasOk
    /\ last.net.fail = "revert"
    /\ last.result = None
    /\ last.log = "contract_logic_error"
    /\ Len(last.steps) = 8

C10_FailedLoadKeepsIdentity ==
    [][(last'.op = "load" /\ last'.result = None) => registrar'.account = registrar.account]_vars

====
